---- MODULE Spec2Model ----
(***************************************************************************)
(* Model of the tutorial scripts of run-llama/ts-agents: 1_agent,          *)
(* 1a_mixtral, 2_agentic_rag, 3_rag_and_tools and 5_qdrant.                *)
(* Every script is a straight line of configuration steps and awaited      *)
(* calls; 5_qdrant adds the parsing cache kept in ./cache.json.  The cache *)
(* file, the Qdrant collection and the source documents outlive a run, the *)
(* other variables are the state of the running script.                    *)
(***************************************************************************)
EXTENDS Integers, Sequences, FiniteSets, TLC

\* ------------------------------------------------------------------ bounds
MaxRuns == 2
MaxFiles == 2

\* The file paths a filesToParse list is drawn from.
Paths == {"a.pdf", "b.pdf"}

Scripts == {"1_agent", "1a_mixtral", "2_agentic_rag", "3_rag_and_tools", "5_qdrant"}

Range(s) == {s[i] : i \in DOMAIN s}

SeqsUpTo(S, n) == UNION {[1..k -> S] : k \in 0..n}

\* ------------------------------------------------------- JSON / cache value
\* A JavaScript value as the script sees it: its kind and, for an object or
\* an array, its own named properties restricted to Paths ("undef" = no such
\* property).  "prim" is a number, string or boolean.
EmptyMap == [p \in Paths |-> "undef"]

\* let cache = {}
EmptyCache == [kind |-> "object", map |-> EmptyMap]

\* What ./cache.json can hold: nothing (absent), text that is not JSON, or
\* the JSON text of null, a primitive, an array or an object.
FileContents ==
    {[kind |-> k, map |-> EmptyMap] : k \in {"absent", "malformed", "null", "prim", "array"}}
    \cup {[kind |-> "object", map |-> m] : m \in [Paths -> {"undef", "true", "false"}]}

Absent == [kind |-> "absent", map |-> EmptyMap]
Malformed == [kind |-> "malformed", map |-> EmptyMap]

\* JSON.parse throws a SyntaxError on text that is not JSON.
JSONparseThrows(f) == f.kind = "malformed"

\* A load that ignores the entries of the file.
JSONparse_Ignored(f) == [kind |-> f.kind, map |-> EmptyMap]

\* JSON.parse of well-formed text.
JSONparse(f) == [kind |-> f.kind, map |-> f.map]

\* A serialisation that loses the entries.
JSONstringify_Empty(c) == [kind |-> c.kind, map |-> EmptyMap]

\* JSON.stringify: an object is written with its own properties; an array is
\* written by its elements only, so named properties set on it are dropped.
JSONstringify(c) ==
    IF c.kind = "object" THEN [kind |-> "object", map |-> c.map]
    ELSE [kind |-> c.kind, map |-> EmptyMap]

\* cache[file] throws a TypeError when cache is null.
GetThrows(c) == c.kind = "null"

\* cache[file]
Get(c, p) == c.map[p]

\* A test that takes every path for not yet parsed.
Falsy_Always(v) == TRUE

\* !cache[file]
Falsy(v) == v \in {"undef", "false"}

\* cache[file] = true throws a TypeError on a primitive (module code is strict).
PutThrows(c) == c.kind \in {"prim", "null"}

\* A loop that forgets to mark the path it parsed.
Put_NoMark(c, p) == c

\* cache[file] = true
Put(c, p) == [c EXCEPT !.map[p] = "true"]

\* The paths a cache value or a cache file maps to true.
TrueSet(c) == {p \in Paths : c.map[p] = "true"}

\* The paths a cache value or a cache file has an entry for.
Keys(c) == {p \in Paths : c.map[p] # "undef"}

\* ------------------------------------------------------------------- tools
NoSchema == [type |-> "none", properties |-> {}, required |-> <<>>]

\* A schema that requires a name it does not declare.
SumNumbersTool_ExtraRequired ==
    [name |-> "sumNumbers",
     description |-> "Use this function to sum two numbers",
     parameters |-> [type |-> "object", properties |-> {"a", "b"}, required |-> <<"a", "b", "c">>]]

\* FunctionTool.from(sumNumbers, {name, description, parameters})
SumNumbersTool ==
    [name |-> "sumNumbers",
     description |-> "Use this function to sum two numbers",
     parameters |-> [type |-> "object", properties |-> {"a", "b"}, required |-> <<"a", "b">>]]

\* A query engine tool given the name of the function tool.
BudgetTool_SameName ==
    [name |-> "sumNumbers",
     description |-> "This tool can answer detailed questions about the individual components of the budget of San Francisco in 2023-2024.",
     parameters |-> NoSchema]

\* new QueryEngineTool({queryEngine, metadata: {name, description}})
BudgetTool ==
    [name |-> "san_francisco_budget_tool",
     description |-> "This tool can answer detailed questions about the individual components of the budget of San Francisco in 2023-2024.",
     parameters |-> NoSchema]

\* const tools = [...]
ToolList(s) ==
    CASE s \in {"1_agent", "1a_mixtral"} -> <<SumNumbersTool>>
      [] s = "2_agentic_rag" -> <<BudgetTool>>
      [] OTHER -> <<BudgetTool, SumNumbersTool>>

\* The messages a script submits, in order.
Messages(s) ==
    CASE s \in {"1_agent", "1a_mixtral"} -> <<"Add 101 and 303">>
      [] s = "2_agentic_rag" -> <<"What's the budget of San Francisco in 2023-2024?">>
      [] s = "3_rag_and_tools" ->
            <<"What's the budget of San Francisco for community health in 2023-24?",
              "What's the budget of San Francisco for public protection in 2023-24?",
              "What's the combined budget of San Francisco for community health and public protection in 2023-24?">>
      [] OTHER ->
            <<"What's the budget of San Francisco for the health service system in 2023-24?",
              "What's the budget of San Francisco for the police department in 2023-24?",
              "What's the combined budget of San Francisco for the health service system and police department in 2023-24?">>

ResponseName == <<"response", "response2", "response3">>

\* ---------------------------------------------------------------- programs
\* The statements of each script in source order.
ConfigOpenAI == <<"setLlm", "onToolCall", "onToolResult">>
ConfigRag == <<"setLlm", "setEmbedModel", "onToolCall", "onToolResult">>
BuildEngine == <<"fromDocuments", "asRetriever", "setTopK", "asQueryEngine">>
OneChat == <<"tools", "newAgent", "chat", "print">>
ThreeChats == <<"tools", "newAgent", "chat", "print", "chat", "print", "chat", "print">>

\* A 5_qdrant that builds the index before it writes the cache file.
Prog_IndexFirst(s) ==
    CASE s \in {"1_agent", "1a_mixtral"} -> ConfigOpenAI \o OneChat
      [] s = "2_agentic_rag" -> ConfigRag \o <<"loadData">> \o BuildEngine \o OneChat
      [] s = "3_rag_and_tools" -> ConfigRag \o <<"loadData">> \o BuildEngine \o ThreeChats
      [] OTHER -> ConfigRag \o <<"newVectorStore", "access", "readCache", "loop">>
                    \o BuildEngine \o <<"writeCache">> \o ThreeChats

Prog(s) ==
    CASE s \in {"1_agent", "1a_mixtral"} -> ConfigOpenAI \o OneChat
      [] s = "2_agentic_rag" -> ConfigRag \o <<"loadData">> \o BuildEngine \o OneChat
      [] s = "3_rag_and_tools" -> ConfigRag \o <<"loadData">> \o BuildEngine \o ThreeChats
      [] OTHER -> ConfigRag \o <<"newVectorStore", "access", "readCache", "loop", "writeCache">>
                    \o BuildEngine \o ThreeChats

\* The model each script assigns to Settings.llm.
LlmOf(s) ==
    CASE s = "1_agent" -> "gpt-4-turbo"
      [] s = "1a_mixtral" -> "mixtral:8x7b"
      [] OTHER -> "gpt-4o"

\* The hosted model left in place in every script.
ProviderOf_Hosted(s) == "OpenAI"

\* The class each script constructs for Settings.llm.
ProviderOf(s) == IF s = "1a_mixtral" THEN "Ollama" ELSE "OpenAI"

\* The endpoint a language model class sends its requests to: Ollama serves
\* on this machine, OpenAI is the hosted provider API.
EndpointOf(provider) == IF provider = "Ollama" THEN "ollama-local" ELSE "openai-api"

\* The number of agent.chat statements among the first k statements of a script.
ChatNo(s, k) == Cardinality({j \in 1..k : Prog(s)[j] = "chat"})

\* ------------------------------------------------------------------- numbers
\* A number is kept as a sign and a magnitude counted in halves, the
\* magnitude in two limbs: hi * Limb + lo halves.
Limb == 2^26

Num(neg, hi, lo) == [neg |-> neg, hi |-> hi, lo |-> lo]

Zero == Num(FALSE, 0, 0)

\* A number of small magnitude, given in halves.
Halves(neg, k) == Num(neg, 0, k)

\* Carry from the low limb into the high limb.
Norm(neg, hi, lo) == Num(neg, hi + (lo \div Limb), lo % Limb)

MagLess(x, y) == x.hi < y.hi \/ (x.hi = y.hi /\ x.lo < y.lo)

\* big - small on magnitudes, with the sign given.
MagSub(neg, big, small) ==
    IF big.lo >= small.lo
    THEN Num(neg, big.hi - small.hi, big.lo - small.lo)
    ELSE Num(neg, big.hi - small.hi - 1, big.lo + Limb - small.lo)

\* The arithmetic sum of two numbers.
ExactAdd(x, y) ==
    IF x.neg = y.neg THEN Norm(x.neg, x.hi + y.hi, x.lo + y.lo)
    ELSE IF MagLess(x, y) THEN MagSub(y.neg, y, x)
    ELSE MagSub(x.neg, x, y)

\* The spacing, in halves, of the doubles around a magnitude: a double has 53
\* significant bits.
Ulp(hi) ==
    IF hi < 2^27 THEN 1
    ELSE IF hi < 2^28 THEN 2
    ELSE IF hi < 2^29 THEN 4
    ELSE 8

\* The double nearest to a number, ties to the even significand.
RoundDouble(n) ==
    LET u == Ulp(n.hi)
        r == n.lo % u
        down == n.lo - r
        lo == IF 2 * r < u THEN down
              ELSE IF 2 * r > u THEN down + u
              ELSE IF (down \div u) % 2 = 0 THEN down
              ELSE down + u
    IN  Norm(n.neg, n.hi, lo)

\* a + b on two doubles
DoubleAdd(x, y) == RoundDouble(ExactAdd(x, y))

DigitChar == <<"0", "1", "2", "3", "4", "5", "6", "7", "8", "9">>

\* The decimal digits of the integer hi * Limb + lo.
RECURSIVE Digits(_, _)
Digits(hi, lo) ==
    IF hi = 0 /\ lo < 10 THEN DigitChar[lo + 1]
    ELSE LET t == (hi % 10) * Limb + lo
         IN  Digits(hi \div 10, t \div 10) \o DigitChar[(t % 10) + 1]

\* The decimal text of a number: its sign, the digits of its integer part
\* and ".5" when it is not an integer.  It is what the template literal
\* `${x}` gives for a double x of magnitude up to 2^54.
NumberToString(n) ==
    (IF n.neg /\ (n.hi # 0 \/ n.lo # 0) THEN "-" ELSE "")
        \o Digits(n.hi \div 2, (n.hi % 2) * (Limb \div 2) + (n.lo \div 2))
        \o (IF n.lo % 2 = 1 THEN ".5" ELSE "")

\* A function that joins the two texts instead of adding the numbers.
sumNumbers_Joined(a, b) == NumberToString(a) \o NumberToString(b)

\* const sumNumbers = ({a, b}) => { return `${a + b}`; }
sumNumbers(a, b) == NumberToString(DoubleAdd(a, b))

\* Both halves and integers up to this magnitude are doubles, and so is
\* every sum of two of them that stays below it.
Safe(n) == n.hi < 2^27

\* The numeric arguments a sumNumbers call is tried with: 0, 0.5, 1, 101,
\* 303, 3200, 2012.5, -1, -303, 2^52 - 0.5 and 2^53.
Nums ==
    {Zero, Halves(FALSE, 1), Halves(FALSE, 2), Halves(FALSE, 202), Halves(FALSE, 606),
     Halves(FALSE, 6400), Halves(FALSE, 4025), Halves(TRUE, 2), Halves(TRUE, 606),
     Num(FALSE, 2^27 - 1, Limb - 1), Num(FALSE, 2^28, 0)}

\* ------------------------------------------------------------------- state
VARIABLES
    cacheFile,     \* contents of ./cache.json (persists between runs)
    store,         \* paths whose documents the Qdrant collection holds (persists)
    dirty,         \* paths whose source file changed since it was last parsed
    filesToParse,  \* the list of 5_qdrant
    runs,          \* number of runs started
    script,        \* the script being run
    phase,         \* "idle", "running", "rejected" (a failure propagates), "exited"
    pc,            \* index of the next statement in Prog(script)
    settings,      \* the process-wide Settings object
    cache,         \* let cache
    cacheExists,   \* let cacheExists
    i,             \* position of the for loop in filesToParse
    documents,     \* let documents: the path each loaded document came from
    parseCalls,    \* number of reader.loadData(file) calls per path in this run
    writes,        \* number of fs.writeFile calls in this run
    reads,         \* number of fs.readFile calls in this run
    index,         \* paths whose documents the query engine searches
    tools,         \* const tools
    agent,         \* the tool list the agent was constructed with
    turn,          \* number of chat messages submitted in this run
    pending,       \* the chat message in flight (0 = none)
    out,           \* console output of this run
    err,           \* the failure that ended the run ("none" if none)
    startFile,     \* contents of ./cache.json when the run started
    origin,        \* kind of ./cache.json before the first run
    written,       \* ./cache.json is as a completed fs.writeFile of 5_qdrant left it
    rerun,         \* written, when the run started
    startStore,    \* store, when the run started
    sent,          \* the messages submitted to the agent in this run, in order
    contacted,     \* the network endpoints this run has called
    args,          \* the arguments of a sumNumbers call
    result         \* what the sumNumbers call returned ("" before the call)

vars == <<cacheFile, store, dirty, filesToParse, runs, script, phase, pc, settings,
          cache, cacheExists, i, documents, parseCalls, writes, reads, index,
          tools, agent, turn, pending, out, err, startFile, origin, written, rerun,
          startStore, sent, contacted, args, result>>

persistent == <<cacheFile, store, dirty, filesToParse, runs, origin, written>>
cacheVars == <<cache, cacheExists, i, documents, parseCalls, writes, reads>>
agentVars == <<tools, agent, turn, pending, sent>>

NoSettings == [llm |-> "none", provider |-> "none", embedModel |-> "none",
               onToolCall |-> 0, onToolResult |-> 0, llmSets |-> 0, embedSets |-> 0]

\* The arguments of a call that is not a sumNumbers call.
NoArgs == [a |-> Zero, b |-> Zero]

Init ==
    /\ cacheFile \in FileContents
    /\ store = {}
    /\ dirty = {}
    /\ filesToParse \in SeqsUpTo(Paths, MaxFiles)
    /\ runs = 0
    /\ script = "5_qdrant"
    /\ phase = "idle"
    /\ pc = 1
    /\ settings = NoSettings
    /\ cache = EmptyCache
    /\ cacheExists = FALSE
    /\ i = 1
    /\ documents = <<>>
    /\ parseCalls = [p \in Paths |-> 0]
    /\ writes = 0
    /\ reads = 0
    /\ index = {}
    /\ tools = <<>>
    /\ agent = <<>>
    /\ turn = 0
    /\ pending = 0
    /\ out = <<>>
    /\ err = "none"
    /\ startFile = cacheFile
    /\ origin = cacheFile.kind
    /\ written = FALSE
    /\ rerun = FALSE
    /\ startStore = store
    /\ sent = <<>>
    /\ contacted = {}
    /\ args = NoArgs
    /\ result = ""

\* The statement the running script is at.
At(step) == phase = "running" /\ pc <= Len(Prog(script)) /\ Prog(script)[pc] = step

\* A new process: node agent.mjs / npx tsx agent.ts
StartRun(s) ==
    /\ phase \in {"idle", "exited"}
    /\ runs < MaxRuns
    /\ runs' = runs + 1
    /\ script' = s
    /\ phase' = "running"
    /\ pc' = 1
    /\ settings' = NoSettings
    /\ cache' = EmptyCache
    /\ cacheExists' = FALSE
    /\ i' = 1
    /\ documents' = <<>>
    /\ parseCalls' = [p \in Paths |-> 0]
    /\ writes' = 0
    /\ reads' = 0
    /\ index' = {}
    /\ tools' = <<>>
    /\ agent' = <<>>
    /\ turn' = 0
    /\ pending' = 0
    /\ out' = <<>>
    /\ err' = "none"
    /\ startFile' = cacheFile
    /\ rerun' = written
    /\ startStore' = store
    /\ sent' = <<>>
    /\ contacted' = {}
    /\ UNCHANGED <<cacheFile, store, dirty, filesToParse, origin, written, args, result>>

\* Between runs somebody edits a source document.
EditSource(p) ==
    /\ phase \in {"idle", "exited"}
    /\ p \notin dirty
    /\ dirty' = dirty \cup {p}
    /\ UNCHANGED <<cacheFile, store, filesToParse, runs, script, phase, pc, settings,
                   startFile, out, err, index, origin, written, rerun, startStore,
                   contacted, args, result>>
    /\ UNCHANGED cacheVars
    /\ UNCHANGED agentVars

\* What a statement that only advances the script leaves alone.
Advance ==
    /\ pc' = pc + 1
    /\ UNCHANGED <<phase, err, script, startFile, rerun, startStore, args, result>>

\* A failure that is swallowed: the script goes on with the next statement.
Reject_Swallowed(e) ==
    /\ phase' = "running"
    /\ err' = e
    /\ pc' = pc + 1
    /\ UNCHANGED <<script, startFile, rerun, startStore, args, result>>

\* A failure leaves the statement: it propagates to the top-level run.
Reject(e) ==
    /\ phase' = "rejected"
    /\ err' = e
    /\ UNCHANGED <<pc, script, startFile, rerun, startStore, args, result>>

\* ------------------------------------------------------------ configuration
\* Settings.llm = new OpenAI({...}) / new Ollama({...})
SetLlm ==
    /\ At("setLlm")
    /\ settings' = [settings EXCEPT !.llm = LlmOf(script), !.provider = ProviderOf(script),
                                   !.llmSets = @ + 1]
    /\ Advance
    /\ UNCHANGED <<out, index, contacted>>
    /\ UNCHANGED persistent
    /\ UNCHANGED cacheVars
    /\ UNCHANGED agentVars

\* Settings.embedModel = new HuggingFaceEmbedding({...})
SetEmbedModel ==
    /\ At("setEmbedModel")
    /\ settings' = [settings EXCEPT !.embedModel = "BAAI/bge-small-en-v1.5", !.embedSets = @ + 1]
    /\ Advance
    /\ UNCHANGED <<out, index, contacted>>
    /\ UNCHANGED persistent
    /\ UNCHANGED cacheVars
    /\ UNCHANGED agentVars

\* A callback that is registered twice.
OnToolCall_Twice ==
    /\ At("onToolCall")
    /\ settings' = [settings EXCEPT !.onToolCall = @ + 2]
    /\ Advance
    /\ UNCHANGED <<out, index, contacted>>
    /\ UNCHANGED persistent
    /\ UNCHANGED cacheVars
    /\ UNCHANGED agentVars

\* Settings.callbackManager.on("llm-tool-call", ...)
OnToolCall ==
    /\ At("onToolCall")
    /\ settings' = [settings EXCEPT !.onToolCall = @ + 1]
    /\ Advance
    /\ UNCHANGED <<out, index, contacted>>
    /\ UNCHANGED persistent
    /\ UNCHANGED cacheVars
    /\ UNCHANGED agentVars

\* Settings.callbackManager.on("llm-tool-result", ...)
OnToolResult ==
    /\ At("onToolResult")
    /\ settings' = [settings EXCEPT !.onToolResult = @ + 1]
    /\ Advance
    /\ UNCHANGED <<out, index, contacted>>
    /\ UNCHANGED persistent
    /\ UNCHANGED cacheVars
    /\ UNCHANGED agentVars

\* const vectorStore = new QdrantVectorStore({url})
NewVectorStore ==
    /\ At("newVectorStore")
    /\ Advance
    /\ UNCHANGED <<out, index, settings, contacted>>
    /\ UNCHANGED persistent
    /\ UNCHANGED cacheVars
    /\ UNCHANGED agentVars

\* ------------------------------------------------------------ parsing cache
\* await fs.access(PARSING_CACHE, fs.constants.F_OK) resolves
AccessOk ==
    /\ At("access")
    /\ cacheFile.kind # "absent"
    /\ cacheExists' = TRUE
    /\ Advance
    /\ UNCHANGED <<out, index, settings, contacted, cache, i, documents, parseCalls, writes, reads>>
    /\ UNCHANGED persistent
    /\ UNCHANGED agentVars

\* A guard that sets cacheExists although fs.access rejected.
AccessNotFound_SetsExists ==
    /\ At("access")
    /\ cacheFile.kind = "absent"
    /\ out' = Append(out, "No cache found")
    /\ cacheExists' = TRUE
    /\ Advance
    /\ UNCHANGED <<index, settings, contacted, cache, i, documents, parseCalls, writes, reads>>
    /\ UNCHANGED persistent
    /\ UNCHANGED agentVars

\* fs.access rejects; catch (e) { console.log("No cache found") }
AccessNotFound ==
    /\ At("access")
    /\ cacheFile.kind = "absent"
    /\ out' = Append(out, "No cache found")
    /\ Advance
    /\ UNCHANGED <<index, settings, contacted>>
    /\ UNCHANGED persistent
    /\ UNCHANGED cacheVars
    /\ UNCHANGED agentVars

\* if (cacheExists) { cache = JSON.parse(await fs.readFile(PARSING_CACHE, "utf-8")) }
ReadCache ==
    /\ At("readCache")
    /\ cacheExists
    /\ ~JSONparseThrows(cacheFile)
    /\ reads' = reads + 1
    /\ cache' = JSONparse(cacheFile)
    /\ Advance
    /\ UNCHANGED <<out, index, settings, contacted, cacheExists, i, documents, parseCalls, writes>>
    /\ UNCHANGED persistent
    /\ UNCHANGED agentVars

\* JSON.parse throws on the text read
ReadCacheThrows ==
    /\ At("readCache")
    /\ cacheExists
    /\ JSONparseThrows(cacheFile)
    /\ reads' = reads + 1
    /\ Reject("SyntaxError")
    /\ UNCHANGED <<out, index, settings, contacted, cache, cacheExists, i, documents, parseCalls, writes>>
    /\ UNCHANGED persistent
    /\ UNCHANGED agentVars

\* fs.readFile rejects
ReadFileFails ==
    /\ At("readCache")
    /\ cacheExists
    /\ reads' = reads + 1
    /\ Reject("rejected")
    /\ UNCHANGED <<out, index, settings, contacted, cache, cacheExists, i, documents, parseCalls, writes>>
    /\ UNCHANGED persistent
    /\ UNCHANGED agentVars

\* cacheExists is false: the if is not taken
ReadCacheSkip ==
    /\ At("readCache")
    /\ ~cacheExists
    /\ Advance
    /\ UNCHANGED <<out, index, settings, contacted>>
    /\ UNCHANGED persistent
    /\ UNCHANGED cacheVars
    /\ UNCHANGED agentVars

\* for (let file of filesToParse): the file of this iteration
InLoop == At("loop") /\ i <= Len(filesToParse)

\* if (!cache[file]) is false: nothing to do for this file
LoopSkip ==
    /\ InLoop
    /\ ~GetThrows(cache)
    /\ ~Falsy(Get(cache, filesToParse[i]))
    /\ i' = i + 1
    /\ UNCHANGED <<pc, phase, err, script, startFile, rerun, startStore, args, result, out, index, settings, contacted>>
    /\ UNCHANGED <<cache, cacheExists, documents, parseCalls, writes, reads>>
    /\ UNCHANGED persistent
    /\ UNCHANGED agentVars

\* A loop that writes the cache file after every parse.
LoopParse_Persisting ==
    /\ InLoop
    /\ ~GetThrows(cache)
    /\ Falsy(Get(cache, filesToParse[i]))
    /\ ~PutThrows(cache)
    /\ parseCalls' = [parseCalls EXCEPT ![filesToParse[i]] = @ + 1]
    /\ documents' = documents \o <<filesToParse[i]>>
    /\ cache' = Put(cache, filesToParse[i])
    /\ cacheFile' = JSONstringify(cache')
    /\ dirty' = dirty \ {filesToParse[i]}
    /\ i' = i + 1
    /\ contacted' = contacted \cup {"llamaparse-api"}
    /\ UNCHANGED <<pc, phase, err, script, startFile, rerun, startStore, args, result, out, index, settings>>
    /\ UNCHANGED <<cacheExists, writes, reads>>
    /\ UNCHANGED <<store, filesToParse, runs, origin, written>>
    /\ UNCHANGED agentVars

\* documents = documents.concat(await reader.loadData(file)); cache[file] = true
LoopParse ==
    /\ InLoop
    /\ ~GetThrows(cache)
    /\ Falsy(Get(cache, filesToParse[i]))
    /\ ~PutThrows(cache)
    /\ parseCalls' = [parseCalls EXCEPT ![filesToParse[i]] = @ + 1]
    /\ documents' = documents \o <<filesToParse[i]>>
    /\ cache' = Put(cache, filesToParse[i])
    /\ dirty' = dirty \ {filesToParse[i]}
    /\ i' = i + 1
    /\ contacted' = contacted \cup {"llamaparse-api"}
    /\ UNCHANGED <<pc, phase, err, script, startFile, rerun, startStore, args, result, out, index, settings>>
    /\ UNCHANGED <<cacheExists, writes, reads>>
    /\ UNCHANGED <<cacheFile, store, filesToParse, runs, origin, written>>
    /\ UNCHANGED agentVars

\* reader.loadData(file) rejects
LoadDataFails ==
    /\ InLoop
    /\ ~GetThrows(cache)
    /\ Falsy(Get(cache, filesToParse[i]))
    /\ parseCalls' = [parseCalls EXCEPT ![filesToParse[i]] = @ + 1]
    /\ contacted' = contacted \cup {"llamaparse-api"}
    /\ Reject("rejected")
    /\ UNCHANGED <<out, index, settings, cache, cacheExists, i, documents, writes, reads>>
    /\ UNCHANGED persistent
    /\ UNCHANGED agentVars

\* cache is null: cache[file] throws a TypeError before anything is loaded
LoopGetThrows ==
    /\ InLoop
    /\ GetThrows(cache)
    /\ Reject("TypeError")
    /\ UNCHANGED <<out, index, settings, contacted>>
    /\ UNCHANGED persistent
    /\ UNCHANGED cacheVars
    /\ UNCHANGED agentVars

\* cache is a primitive: the file is loaded, then cache[file] = true throws
LoopPutThrows ==
    /\ InLoop
    /\ ~GetThrows(cache)
    /\ Falsy(Get(cache, filesToParse[i]))
    /\ PutThrows(cache)
    /\ parseCalls' = [parseCalls EXCEPT ![filesToParse[i]] = @ + 1]
    /\ documents' = documents \o <<filesToParse[i]>>
    /\ dirty' = dirty \ {filesToParse[i]}
    /\ contacted' = contacted \cup {"llamaparse-api"}
    /\ Reject("TypeError")
    /\ UNCHANGED <<out, index, settings, cache, cacheExists, i, writes, reads>>
    /\ UNCHANGED <<cacheFile, store, filesToParse, runs, origin, written>>
    /\ UNCHANGED agentVars

\* the for loop is over
LoopExit ==
    /\ At("loop")
    /\ i > Len(filesToParse)
    /\ Advance
    /\ UNCHANGED <<out, index, settings, contacted>>
    /\ UNCHANGED persistent
    /\ UNCHANGED cacheVars
    /\ UNCHANGED agentVars

\* A write that is skipped when nothing was newly parsed.
WriteCache_OnlyIfNew ==
    /\ At("writeCache")
    /\ IF documents # <<>>
       THEN cacheFile' = JSONstringify(cache) /\ written' = TRUE /\ writes' = writes + 1
       ELSE UNCHANGED <<cacheFile, written, writes>>
    /\ Advance
    /\ UNCHANGED <<out, index, settings, contacted, cache, cacheExists, i, documents, parseCalls, reads>>
    /\ UNCHANGED <<store, dirty, filesToParse, runs, origin>>
    /\ UNCHANGED agentVars

\* await fs.writeFile(PARSING_CACHE, JSON.stringify(cache))
WriteCache ==
    /\ At("writeCache")
    /\ cacheFile' = JSONstringify(cache)
    /\ written' = TRUE
    /\ writes' = writes + 1
    /\ Advance
    /\ UNCHANGED <<out, index, settings, contacted, cache, cacheExists, i, documents, parseCalls, reads>>
    /\ UNCHANGED <<store, dirty, filesToParse, runs, origin>>
    /\ UNCHANGED agentVars

\* What a rejected fs.writeFile can leave on disk: the file is replaced in
\* place, so it is untouched, truncated, or fully written.
WriteFailOutcomes(old, new) == {old, Malformed, new}

\* fs.writeFile rejects
WriteCacheFails ==
    /\ At("writeCache")
    /\ cacheFile' \in WriteFailOutcomes(cacheFile, JSONstringify(cache))
    /\ written' = FALSE
    /\ writes' = writes + 1
    /\ Reject("rejected")
    /\ UNCHANGED <<out, index, settings, contacted, cache, cacheExists, i, documents, parseCalls, reads>>
    /\ UNCHANGED <<store, dirty, filesToParse, runs, origin>>
    /\ UNCHANGED agentVars

\* ------------------------------------------------------------ query engine
\* const documents = await reader.loadData("../data")  (SimpleDirectoryReader)
LoadData ==
    /\ At("loadData")
    /\ documents' = <<"../data">>
    /\ Advance
    /\ UNCHANGED <<out, index, settings, contacted, cache, cacheExists, i, parseCalls, writes, reads>>
    /\ UNCHANGED persistent
    /\ UNCHANGED agentVars

\* const index = await VectorStoreIndex.fromDocuments(documents [, {vectorStore}])
\* With a vector store the documents are added to the collection, and the
\* index searches the whole collection.
FromDocuments ==
    /\ At("fromDocuments")
    /\ IF script = "5_qdrant"
       THEN /\ store' = store \cup Range(documents)
            /\ index' = store'
       ELSE /\ index' = Range(documents)
            /\ store' = store
    /\ contacted' = IF script = "5_qdrant" THEN contacted \cup {"qdrant"} ELSE contacted
    /\ Advance
    /\ UNCHANGED <<out, settings>>
    /\ UNCHANGED <<cacheFile, dirty, filesToParse, runs, origin, written>>
    /\ UNCHANGED cacheVars
    /\ UNCHANGED agentVars

\* VectorStoreIndex.fromDocuments rejects: any part of the documents may have
\* reached the collection already.
FromDocumentsFails ==
    /\ At("fromDocuments")
    /\ IF script = "5_qdrant"
       THEN \E S \in SUBSET Range(documents) : store' = store \cup S
       ELSE store' = store
    /\ contacted' = IF script = "5_qdrant" THEN contacted \cup {"qdrant"} ELSE contacted
    /\ Reject("rejected")
    /\ UNCHANGED <<out, index, settings>>
    /\ UNCHANGED <<cacheFile, dirty, filesToParse, runs, origin, written>>
    /\ UNCHANGED cacheVars
    /\ UNCHANGED agentVars

\* const retriever = await index.asRetriever()
AsRetriever ==
    /\ At("asRetriever")
    /\ Advance
    /\ UNCHANGED <<out, index, settings, contacted>>
    /\ UNCHANGED persistent
    /\ UNCHANGED cacheVars
    /\ UNCHANGED agentVars

\* retriever.similarityTopK = 10
SetTopK ==
    /\ At("setTopK")
    /\ Advance
    /\ UNCHANGED <<out, index, settings, contacted>>
    /\ UNCHANGED persistent
    /\ UNCHANGED cacheVars
    /\ UNCHANGED agentVars

\* const queryEngine = await index.asQueryEngine({retriever})
AsQueryEngine ==
    /\ At("asQueryEngine")
    /\ Advance
    /\ UNCHANGED <<out, index, settings, contacted>>
    /\ UNCHANGED persistent
    /\ UNCHANGED cacheVars
    /\ UNCHANGED agentVars

\* The awaited calls of the query-engine part that have no effect when they
\* reject.
AwaitFails ==
    /\ \/ At("loadData")
       \/ At("asRetriever")
       \/ At("asQueryEngine")
    /\ Reject("rejected")
    /\ UNCHANGED <<out, index, settings, contacted>>
    /\ UNCHANGED persistent
    /\ UNCHANGED cacheVars
    /\ UNCHANGED agentVars

\* ------------------------------------------------------------------- agent
\* const tools = [...]
MakeTools ==
    /\ At("tools")
    /\ tools' = ToolList(script)
    /\ Advance
    /\ UNCHANGED <<out, index, settings, contacted, agent, turn, pending, sent>>
    /\ UNCHANGED persistent
    /\ UNCHANGED cacheVars

\* const agent = new OpenAIAgent({tools}) / new ReActAgent({tools})
NewAgent ==
    /\ At("newAgent")
    /\ agent' = tools
    /\ Advance
    /\ UNCHANGED <<out, index, settings, contacted, tools, turn, pending, sent>>
    /\ UNCHANGED persistent
    /\ UNCHANGED cacheVars

\* A call that is not awaited: the script goes on while it is in flight.
ChatSubmit_NotAwaited ==
    /\ At("chat")
    /\ turn' = turn + 1
    /\ pending' = turn + 1
    /\ sent' = Append(sent, Messages(script)[ChatNo(script, pc)])
    /\ contacted' = contacted \cup {EndpointOf(settings.provider)}
    /\ Advance
    /\ UNCHANGED <<out, index, settings, tools, agent>>
    /\ UNCHANGED persistent
    /\ UNCHANGED cacheVars

\* agent.chat({message}) is called: the message is submitted
ChatSubmit ==
    /\ At("chat")
    /\ pending = 0
    /\ turn' = turn + 1
    /\ pending' = turn + 1
    /\ sent' = Append(sent, Messages(script)[ChatNo(script, pc)])
    /\ contacted' = contacted \cup {EndpointOf(settings.provider)}
    /\ UNCHANGED <<pc, phase, err, script, startFile, rerun, startStore, args, result, out, index,
                   settings, tools, agent>>
    /\ UNCHANGED persistent
    /\ UNCHANGED cacheVars

\* await agent.chat(...) resolves with the response
ChatResolves ==
    /\ At("chat")
    /\ pending # 0
    /\ pending' = 0
    /\ Advance
    /\ UNCHANGED <<out, index, settings, contacted, tools, agent, turn, sent>>
    /\ UNCHANGED persistent
    /\ UNCHANGED cacheVars

\* A rejected call that is tried again.
ChatFails_Retried ==
    /\ At("chat")
    /\ pending # 0
    /\ pending' = 0
    /\ UNCHANGED <<pc, phase, err, script, startFile, rerun, startStore, args, result>>
    /\ UNCHANGED <<out, index, settings, contacted, tools, agent, turn, sent>>
    /\ UNCHANGED persistent
    /\ UNCHANGED cacheVars

\* await agent.chat(...) rejects
ChatFails ==
    /\ At("chat")
    /\ pending # 0
    /\ pending' = 0
    /\ Reject("rejected")
    /\ UNCHANGED <<out, index, settings, contacted, tools, agent, turn, sent>>
    /\ UNCHANGED persistent
    /\ UNCHANGED cacheVars

\* console.log(response)
PrintResponse ==
    /\ At("print")
    /\ out' = Append(out, ResponseName[turn])
    /\ Advance
    /\ UNCHANGED <<index, settings, contacted>>
    /\ UNCHANGED persistent
    /\ UNCHANGED cacheVars
    /\ UNCHANGED agentVars

\* ------------------------------------------------------------ top-level run
\* main().catch(console.error); in 1_agent the rejected top-level await is
\* reported by the runtime.  Either way the failure is printed and the
\* process ends.
Catch ==
    /\ phase = "rejected"
    /\ out' = Append(out, "error")
    /\ phase' = "exited"
    /\ UNCHANGED <<pc, err, script, startFile, rerun, startStore, args, result, index, settings, contacted>>
    /\ UNCHANGED persistent
    /\ UNCHANGED cacheVars
    /\ UNCHANGED agentVars

\* The last statement has run: main() resolves and the process ends.
Finish ==
    /\ phase = "running"
    /\ pc > Len(Prog(script))
    /\ phase' = "exited"
    /\ UNCHANGED <<pc, err, script, startFile, rerun, startStore, args, result, out, index, settings, contacted>>
    /\ UNCHANGED persistent
    /\ UNCHANGED cacheVars
    /\ UNCHANGED agentVars

Next ==
    \/ \E s \in Scripts : StartRun(s)
    \/ \E p \in Paths : EditSource(p)
    \/ SetLlm
    \/ SetEmbedModel
    \/ OnToolCall
    \/ OnToolResult
    \/ NewVectorStore
    \/ AccessOk
    \/ AccessNotFound
    \/ ReadCache
    \/ ReadCacheThrows
    \/ ReadFileFails
    \/ ReadCacheSkip
    \/ LoopSkip
    \/ LoopParse
    \/ LoadDataFails
    \/ LoopGetThrows
    \/ LoopPutThrows
    \/ LoopExit
    \/ WriteCache
    \/ WriteCacheFails
    \/ LoadData
    \/ FromDocuments
    \/ FromDocumentsFails
    \/ AsRetriever
    \/ SetTopK
    \/ AsQueryEngine
    \/ AwaitFails
    \/ MakeTools
    \/ NewAgent
    \/ ChatSubmit
    \/ ChatResolves
    \/ ChatFails
    \/ PrintResponse
    \/ Catch
    \/ Finish

Spec == Init /\ [][Next]_vars

\* ------------------------------------------------------------------- types
TypeOK ==
    /\ cacheFile \in FileContents
    /\ store \subseteq Paths
    /\ dirty \subseteq Paths
    /\ runs \in 0..MaxRuns
    /\ script \in Scripts
    /\ phase \in {"idle", "running", "rejected", "exited"}
    /\ pc \in 1..(Len(Prog(script)) + 1)
    /\ cacheExists \in BOOLEAN
    /\ i \in 1..(Len(filesToParse) + 1)
    /\ pending \in 0..3
    /\ turn \in 0..3
    /\ err \in {"none", "SyntaxError", "TypeError", "rejected"}

\* --------------------------------------------------------------- sumNumbers
\* The function of the sumNumbers tool on its own: a call with any two of the
\* numbers above.
InitSum ==
    /\ args \in [a : Nums, b : Nums]
    /\ result = ""
    /\ cacheFile = Absent
    /\ store = {}
    /\ dirty = {}
    /\ filesToParse = <<>>
    /\ runs = 0
    /\ script = "1_agent"
    /\ phase = "idle"
    /\ pc = 1
    /\ settings = NoSettings
    /\ cache = EmptyCache
    /\ cacheExists = FALSE
    /\ i = 1
    /\ documents = <<>>
    /\ parseCalls = [p \in Paths |-> 0]
    /\ writes = 0
    /\ reads = 0
    /\ index = {}
    /\ tools = <<>>
    /\ agent = <<>>
    /\ turn = 0
    /\ pending = 0
    /\ out = <<>>
    /\ err = "none"
    /\ startFile = Absent
    /\ origin = "absent"
    /\ written = FALSE
    /\ rerun = FALSE
    /\ startStore = {}
    /\ sent = <<>>
    /\ contacted = {}

\* sumNumbers({a, b}) is called and returns
CallSumNumbers ==
    /\ result = ""
    /\ result' = sumNumbers(args.a, args.b)
    /\ UNCHANGED <<args, script, phase, pc, settings, out, err, index, contacted,
                   startFile, rerun, startStore>>
    /\ UNCHANGED persistent
    /\ UNCHANGED cacheVars
    /\ UNCHANGED agentVars

NextSum == CallSumNumbers

SpecSum == InitSum /\ [][NextSum]_vars

\* --------------------------------------------------------------- positions
\* The index of the first occurrence of a statement in the 5_qdrant script.
PcOf(step) ==
    CHOOSE k \in 1..Len(Prog("5_qdrant")) :
        /\ Prog("5_qdrant")[k] = step
        /\ \A j \in 1..(k - 1) : Prog("5_qdrant")[j] # step

\* A run of 5_qdrant is under way or has ended.
InQdrant == script = "5_qdrant" /\ phase # "idle"

\* The fs.writeFile call of this run has resolved: the ingestion step completed.
Ingested == InQdrant /\ pc > PcOf("writeCache")

\* The for loop of this run is over.
LoopDone == InQdrant /\ pc > PcOf("loop")

\* The paths reader.loadData was called for in this run.
Parsed == {p \in Paths : parseCalls[p] > 0}

\* ------------------------------------------------------------------ claims

\* C1 (as stated): for every content of the cache file and every filesToParse,
\* an absent cache file gives an empty in-memory map, and after a run whose
\* ingestion step completed the persisted map is the pre-existing entries,
\* unchanged, together with exactly the paths parsed in this run mapped to
\* true.
C1_Original ==
    /\ (InQdrant /\ startFile.kind = "absent" /\ pc <= PcOf("loop") /\ i = 1)
            => cache = EmptyCache
    /\ Ingested =>
        \A p \in Paths :
            cacheFile.map[p] = IF p \in Keys(startFile) THEN startFile.map[p]
                               ELSE IF p \in Parsed THEN "true" ELSE "undef"

\* C1 (amended): when the cache file is absent or holds a JSON object, an
\* absent file gives an empty in-memory map, and after a run whose ingestion
\* step completed the persisted map is a JSON object that maps every path
\* parsed in this run to true and every other path to what the file held at
\* startup; the parsed paths are exactly the paths of filesToParse that the
\* startup file did not hold with a truthy value (an entry held as false is
\* parsed and overwritten with true).
C1_PersistedMap ==
    /\ (InQdrant /\ startFile.kind = "absent" /\ pc <= PcOf("loop") /\ i = 1)
            => cache = EmptyCache
    /\ (Ingested /\ startFile.kind \in {"absent", "object"}) =>
        /\ cacheFile.kind = "object"
        /\ Parsed = {p \in Range(filesToParse) : Falsy(startFile.map[p])}
        /\ \A p \in Paths :
            cacheFile.map[p] = IF p \in Parsed THEN "true" ELSE startFile.map[p]

\* C1 witness: a completed ingestion that parsed one path and kept an entry
\* the file already held.
C1_Witness ==
    /\ Ingested
    /\ startFile.kind = "object"
    /\ \E p, q \in Paths :
        /\ p # q
        /\ startFile.map[p] = "true"
        /\ startFile.map[q] = "undef"
        /\ parseCalls[q] = 1
        /\ cacheFile.map[p] = "true"
        /\ cacheFile.map[q] = "true"

\* C2: reader.loadData is never called for a path the cache file read at
\* startup holds as true, and it is called at most once per path in a run.
C2_NeverReparsed ==
    InQdrant =>
        \A p \in Paths :
            /\ startFile.map[p] = "true" => parseCalls[p] = 0
            /\ parseCalls[p] <= 1

\* C2 witness: the loop is over, it skipped a path of filesToParse that the
\* file held as true and parsed another one.
C2_Witness ==
    /\ LoopDone
    /\ \E p, q \in Range(filesToParse) :
        /\ startFile.map[p] = "true"
        /\ parseCalls[p] = 0
        /\ parseCalls[q] = 1

\* C3 (as stated): whatever the cache file holds at startup, the run of
\* 5_qdrant is not ended by what the cache file holds, and when a message is
\* submitted to the agent the documents of every path of filesToParse are in
\* the data the query engine searches.
C3_OnlyRedundantParsing ==
    InQdrant =>
        /\ err \notin {"SyntaxError", "TypeError"}
        /\ turn >= 1 => Range(filesToParse) \subseteq index

\* C4: when the cache file does not exist, the rejected fs.access does not end
\* the run: "No cache found" is logged, the file is not read, the map stays
\* empty until the loop, every path of filesToParse is parsed, and a run that
\* is still executing has met no other failure.
C4_NoCacheGuard ==
    /\ (InQdrant /\ phase = "running") => err = "none"
    /\ (InQdrant /\ startFile.kind = "absent") =>
        /\ pc > PcOf("access") =>
            /\ Len(out) >= 1
            /\ out[1] = "No cache found"
            /\ ~cacheExists
            /\ reads = 0
        /\ pc = PcOf("access") + 1 => phase = "running"
        /\ (pc <= PcOf("loop") /\ i = 1) => cache = EmptyCache
        /\ LoopDone => \A p \in Range(filesToParse) : parseCalls[p] = 1

\* C4 witness: no cache file at startup, and the loop has parsed two paths.
C4_Witness ==
    /\ LoopDone
    /\ startFile.kind = "absent"
    /\ out # <<>>
    /\ out[1] = "No cache found"
    /\ Len(filesToParse) = 2
    /\ filesToParse[1] # filesToParse[2]
    /\ \A p \in Range(filesToParse) : parseCalls[p] = 1

\* The number of failure reports on the console of this run.
ErrorsLogged == Cardinality({k \in DOMAIN out : out[k] = "error"})

\* What no statement of the script touches once a failure has propagated.
ScriptState == <<pc, turn, pending, tools, agent, settings, cache, cacheExists, i, documents,
                 parseCalls, writes, reads, index, cacheFile, store>>

\* C5: in each script, once an awaited step other than the fs.access check has
\* failed, no later statement is executed (no later message is submitted, no
\* later response is printed), the failure is reported exactly once by the
\* top-level run, and the process ends.
C5_FailureEndsRun ==
    /\ [](/\ err # "none" => phase \in {"rejected", "exited"}
          /\ phase = "rejected" => (err # "none" /\ ErrorsLogged = 0 /\ ENABLED Catch)
          /\ (phase = "exited" /\ err # "none") =>
                (ErrorsLogged = 1 /\ out[Len(out)] = "error" /\ pc <= Len(Prog(script)))
          /\ err = "none" => ErrorsLogged = 0)
    /\ [][(err # "none" /\ runs' = runs) =>
            /\ ScriptState' = ScriptState
            /\ IF phase = "rejected"
               THEN phase' = "exited" /\ out' = Append(out, "error")
               ELSE phase' = phase /\ out' = out]_vars

\* C5 witness: in 3_rag_and_tools the second agent.chat failed; the run ended
\* with one response printed, the failure reported once and no third message.
C5_Witness ==
    /\ script = "3_rag_and_tools"
    /\ phase = "exited"
    /\ err = "rejected"
    /\ turn = 2
    /\ out = <<"response", "error">>

\* C6: in every run of 5_qdrant the cache file is not written before the loop
\* is over; once the loop is over the next statement is the write, whatever
\* was parsed and whether a cache file existed; the write is called exactly
\* once, and the index is built only after it.
C6_WrittenOnce ==
    /\ [](InQdrant =>
            /\ writes <= 1
            /\ (pc < PcOf("writeCache") \/ (pc = PcOf("writeCache") /\ phase = "running"))
                    => (writes = 0 /\ cacheFile = startFile)
            /\ pc > PcOf("writeCache") => writes = 1
            /\ writes = 1 => i > Len(filesToParse)
            /\ At("writeCache") => ENABLED WriteCache)
    /\ [][(InQdrant /\ runs' = runs) =>
            /\ (At("loop") /\ pc' # pc) => pc' = PcOf("writeCache")
            /\ At("writeCache") => writes' = 1
            /\ (store' # store \/ index' # index) => writes = 1]_vars

\* C6 witness: no cache file at startup and nothing to parse, and the cache
\* file has been written.
C6_Witness ==
    /\ Ingested
    /\ startFile.kind = "absent"
    /\ documents = <<>>
    /\ writes = 1
    /\ cacheFile = [kind |-> "object", map |-> EmptyMap]

ValidOrigin == origin \in {"absent", "object"}

\* A path whose source changed and that the cache file marks true stays
\* unparsed.
StaysUnparsed == \A p \in dirty : cacheFile.map[p] = "true" => p \in dirty'

C9_RequiredDeclared ==
    \A k \in DOMAIN tools :
        tools[k].parameters.type # "none"
            => Range(tools[k].parameters.required) \subseteq tools[k].parameters.properties

\* C9 witness: 5_qdrant has built its tool list, which holds the sumNumbers
\* schema with two required names.
C9_Witness ==
    /\ script = "5_qdrant"
    /\ \E k \in DOMAIN tools :
        /\ tools[k].name = "sumNumbers"
        /\ Len(tools[k].parameters.required) = 2

\* C10: no two tools handed to an agent have the same name; in 3_rag_and_tools
\* and 5_qdrant the agent gets san_francisco_budget_tool and sumNumbers.
C10_UniqueNames ==
    /\ \A j, k \in DOMAIN agent : j # k => agent[j].name # agent[k].name
    /\ (script \in {"3_rag_and_tools", "5_qdrant"} /\ agent # <<>>) =>
        /\ Len(agent) = 2
        /\ {agent[k].name : k \in DOMAIN agent} = {"san_francisco_budget_tool", "sumNumbers"}

\* C10 witness: the agent of 3_rag_and_tools has been constructed with two
\* tools.
C10_Witness ==
    /\ script = "3_rag_and_tools"
    /\ Len(agent) = 2

\* The call has returned.
Returned == result # ""

\* C11 (as stated): for every pair of numeric inputs the call returns the
\* decimal text of the arithmetic sum; 101 and 303 give "404", 3200 and 2012.5
\* give "5212.5".
C11_Original ==
    Returned =>
        /\ result = NumberToString(ExactAdd(args.a, args.b))
        /\ (args.a = Halves(FALSE, 202) /\ args.b = Halves(FALSE, 606)) => result = "404"
        /\ (args.a = Halves(FALSE, 6400) /\ args.b = Halves(FALSE, 4025)) => result = "5212.5"

\* C11 (amended): the same for every pair of inputs that are multiples of 0.5
\* of magnitude below 2^52 and whose sum is of magnitude below 2^52.
C11_SumText ==
    Returned =>
        /\ (Safe(args.a) /\ Safe(args.b) /\ Safe(ExactAdd(args.a, args.b)))
                => result = NumberToString(ExactAdd(args.a, args.b))
        /\ (args.a = Halves(FALSE, 202) /\ args.b = Halves(FALSE, 606)) => result = "404"
        /\ (args.a = Halves(FALSE, 6400) /\ args.b = Halves(FALSE, 4025)) => result = "5212.5"

\* C11 witness: the call with 3200 and 2012.5 has returned "5212.5".
C11_Witness ==
    /\ args = [a |-> Halves(FALSE, 6400), b |-> Halves(FALSE, 4025)]
    /\ result = "5212.5"

\* The responses printed in this run, in order.
Printed == SelectSeq(out, LAMBDA e : e \in Range(ResponseName))

\* C12: at most one agent.chat call is in flight; the messages are submitted
\* in their fixed order; while a call is in flight the script stays at that
\* statement; a message is submitted only after the response to the one
\* before it has been printed, and each response is printed once.
C12_OneAtATime ==
    /\ pending \in {0, turn}
    /\ pending # 0 => (At("chat") /\ Len(Printed) = turn - 1)
    /\ turn <= Len(Messages(script))
    /\ sent = SubSeq(Messages(script), 1, turn)
    /\ Len(Printed) \in {turn - 1, turn}
    /\ Printed = SubSeq(ResponseName, 1, Len(Printed))
    /\ (phase = "exited" /\ err = "none") =>
            (turn = Len(Messages(script)) /\ Len(Printed) = turn)

\* C12 witness: 5_qdrant has its third message in flight and has printed two
\* responses.
C12_Witness ==
    /\ script = "5_qdrant"
    /\ pending = 3
    /\ Len(sent) = 3
    /\ out[Len(out)] = "response2"

\* The agent has been constructed or a message has been submitted.
AgentStarted == agent # <<>> \/ turn >= 1

\* C13: the language model, the embedding model where the script uses one,
\* and the two callbacks are each set once, before the agent is constructed
\* and before the first message, and Settings is not changed afterwards.
C13_ConfiguredOnce ==
    /\ [](/\ settings.llmSets <= 1
          /\ settings.embedSets <= 1
          /\ settings.onToolCall <= 1
          /\ settings.onToolResult <= 1
          /\ AgentStarted =>
                /\ settings.llmSets = 1
                /\ settings.llm = LlmOf(script)
                /\ settings.onToolCall = 1
                /\ settings.onToolResult = 1
                /\ settings.embedSets = IF script \in {"1_agent", "1a_mixtral"} THEN 0 ELSE 1)
    /\ [][(runs' = runs /\ settings' # settings) => (~AgentStarted /\ ~AgentStarted')]_vars

\* C13 witness: 1a_mixtral has submitted its message with the model and both
\* callbacks set once.
C13_Witness ==
    /\ script = "1a_mixtral"
    /\ turn = 1
    /\ settings.llm = "mixtral:8x7b"
    /\ settings.llmSets = 1
    /\ settings.onToolCall = 1
    /\ settings.onToolResult = 1

\* C14: the tool list is built once, the agent is constructed with it, no
\* later statement changes either, every message goes to that agent, and no
\* message is submitted twice.
C14_FixedTools ==
    /\ [](/\ agent # <<>> => (agent = tools /\ Len(agent) >= 1)
          /\ turn >= 1 => agent # <<>>
          /\ Len(sent) = turn
          /\ \A j, k \in DOMAIN sent : j # k => sent[j] # sent[k])
    /\ [][runs' = runs =>
            /\ tools # <<>> => tools' = tools
            /\ agent # <<>> => agent' = agent]_vars

\* C14 witness: 3_rag_and_tools has ended after three messages to the agent
\* it constructed with two tools.
C14_Witness ==
    /\ script = "3_rag_and_tools"
    /\ phase = "exited"
    /\ err = "none"
    /\ Len(sent) = 3
    /\ Len(agent) = 2
    /\ agent = tools

\* C15: a run of 1a_mixtral calls no endpoint but the local model server.
C15_LocalOnly ==
    script = "1a_mixtral" =>
        /\ contacted \subseteq {"ollama-local"}
        /\ turn >= 1 => contacted = {"ollama-local"}
        /\ settings.provider \in {"none", "Ollama"}

\* C15 witness: 1a_mixtral has ended after its message was answered.
C15_Witness ==
    /\ script = "1a_mixtral"
    /\ phase = "exited"
    /\ err = "none"
    /\ turn = 1
    /\ contacted = {"ollama-local"}

\* reader.loadData rejected in the loop of this run.
ParseFailed == InQdrant /\ pc = PcOf("loop") /\ err = "rejected"

\* C17: when reader.loadData rejects in the loop, the cache file stays as it
\* was when the run started, the Qdrant collection is untouched, no index is
\* built, no agent is constructed and no message is submitted.
C17_ParseFailure ==
    ParseFailed =>
        /\ cacheFile = startFile
        /\ writes = 0
        /\ store = startStore
        /\ index = {}
        /\ agent = <<>>
        /\ turn = 0
        /\ sent = <<>>

\* C17 witness: no cache file at startup; the first path was parsed and marked
\* in memory, the second parse failed, and the run has ended with no cache
\* file.
C17_Witness ==
    /\ ParseFailed
    /\ phase = "exited"
    /\ startFile.kind = "absent"
    /\ cacheFile.kind = "absent"
    /\ Len(documents) = 1
    /\ TrueSet(cache) # {}

\* The cache file this run started from marks every path of filesToParse true.
AllMarked == \A p \in Range(filesToParse) : startFile.map[p] = "true"

\* C18: the Qdrant collection is only changed after the cache file has been
\* written with the marks of this run; a run that starts from a cache file
\* marking the paths true skips them whether or not the collection holds their
\* documents, makes no parse call and builds the index from no new document.
C18_MarkedBeforeIndexed ==
    /\ []((InQdrant /\ AllMarked) =>
            /\ Parsed = {}
            /\ documents = <<>>
            /\ pc > PcOf("fromDocuments") => (store = startStore /\ index = store))
    /\ [][(InQdrant /\ runs' = runs /\ store' # store) =>
            (writes = 1 /\ cacheFile = JSONstringify(cache))]_vars

\* C18 witness: starting with no cache file, a first run wrote the marks; the
\* second run has built its index from no document while the collection
\* lacks a path the cache file marks true.
C18_Witness ==
    /\ InQdrant
    /\ origin = "absent"
    /\ runs = 2
    /\ rerun
    /\ AllMarked
    /\ pc > PcOf("fromDocuments")
    /\ Parsed = {}
    /\ \E p \in Range(filesToParse) : cacheFile.map[p] = "true" /\ p \notin store

====
